---- MODULE Spec2Model ----
(***************************************************************************)
(* Optimistic mutation / cache reconciliation layer of the Kanban board:   *)
(* the tasks query cache, the four mutation hooks (create, update, delete, *)
(* move) with their onMutate / onError / onSuccess handlers, the useKanban *)
(* callbacks that compute the requests, the board view-model               *)
(* (getTasksByStatus) and the drag handler of KanbanBoard.                 *)
(*                                                                         *)
(* Scheduling: the browser event loop.  A user event or a network event    *)
(* is a macrotask; mutate() schedules onMutate on the microtask queue, so  *)
(* the onMutate body runs before any other macrotask.  The callbacks of    *)
(* useKanban read `tasks` of the latest render, which is the cache value   *)
(* at the time of the user event.                                          *)
(***************************************************************************)
EXTENDS Integers, Sequences, FiniteSets, TLC

\* ------------------------------------------------------------------ bounds
MaxOps == 2        \* user gestures handled (calls of useKanban callbacks, drags)
MaxInFlight == 2   \* mutations in flight at the same time
MaxClock == 1      \* largest value of the wall clock (Date.now())

\* ------------------------------------------------- values of optional fields
\* backendId?: number -- an absent backendId is 0; `!task.backendId` treats
\* undefined and 0 alike and the server never issues id 0.
NoBackendId == 0
\* description?: string on the frontend, string | null on the wire.
Undefined == "<undefined>"
Null == "<null>"
\* an absent key of a request object / Partial<Task>
Absent == "<absent>"
AbsentNum == -1

\* ---------------------------------------------------------- lookup tables
Statuses == {"todo", "in-progress", "done"}

COLUMN_STATUS_MAP == (1 :> "todo") @@ (2 :> "in-progress") @@ (3 :> "done")

STATUS_COLUMN_MAP == [s \in Statuses |->
    CASE s = "todo" -> 1 [] s = "in-progress" -> 2 [] s = "done" -> 3]

\* COLUMN_STATUS_MAP[c] of JavaScript: undefined when c is not a key
LookupColumnStatus(c) ==
    IF c \in DOMAIN COLUMN_STATUS_MAP THEN COLUMN_STATUS_MAP[c] ELSE Undefined

\* ------------------------------------------------------ sequence helpers
RECURSIVE SelectSeqBy(_, _)
\* Array.prototype.filter with the set of kept elements given as a predicate set
SelectSeqBy(seq, keep) ==
    IF seq = <<>> THEN <<>>
    ELSE IF Head(seq) \in keep
         THEN <<Head(seq)>> \o SelectSeqBy(Tail(seq), keep)
         ELSE SelectSeqBy(Tail(seq), keep)

Range(seq) == {seq[i] : i \in 1..Len(seq)}

\* x || y of JavaScript on an optional string: "" , undefined and null are falsy
OrElse(x, y) == IF x \in {"", Undefined, Null, Absent} THEN y ELSE x

\* --------------------------------------------------------- transformations
\* String(n) for the ids used
String(n) == ToString(n)

\* transformBackendTask without the `|| 'todo'` fallback
transformBackendTask_NoFallback(b) ==
    [id |-> String(b.id),
     title |-> b.title,
     description |-> OrElse(b.description, Undefined),
     status |-> LookupColumnStatus(b.column_id),
     createdAt |-> b.created_at,
     updatedAt |-> b.created_at,
     backendId |-> b.id,
     columnId |-> b.column_id,
     order |-> b.order,
     priority |-> Undefined]

\* transformBackendTask that gives every task the status todo
transformBackendTask_AlwaysTodo(b) ==
    [id |-> String(b.id),
     title |-> b.title,
     description |-> OrElse(b.description, Undefined),
     status |-> "todo",
     createdAt |-> b.created_at,
     updatedAt |-> b.created_at,
     backendId |-> b.id,
     columnId |-> b.column_id,
     order |-> b.order,
     priority |-> Undefined]

transformBackendTask(b) ==
    LET status == IF LookupColumnStatus(b.column_id) = Undefined
                  THEN "todo" ELSE LookupColumnStatus(b.column_id)
    IN [id |-> String(b.id),
        title |-> b.title,
        description |-> OrElse(b.description, Undefined),
        status |-> status,
        createdAt |-> b.created_at,
        updatedAt |-> b.created_at,
        backendId |-> b.id,
        columnId |-> b.column_id,
        order |-> b.order,
        priority |-> Undefined]

\* a create request that always names the first column
transformToCreateRequest_FirstColumn(task, order) ==
    [title |-> task.title,
     description |-> OrElse(task.description, Null),
     column_id |-> 1,
     order |-> order]

transformToCreateRequest(task, order) ==
    [title |-> task.title,
     description |-> OrElse(task.description, Null),
     column_id |-> IF task.status \in DOMAIN STATUS_COLUMN_MAP
                   THEN STATUS_COLUMN_MAP[task.status] ELSE 1,
     order |-> order]

\* a key is copied when its value !== undefined; a key that is not there and
\* a key whose value is undefined are the same to this test
transformToUpdateRequest(updates) ==
    [title |-> IF updates.title \in {Absent, Undefined} THEN Absent
               ELSE updates.title,
     description |-> IF updates.description \in {Absent, Undefined} THEN Absent
                     ELSE OrElse(updates.description, Null),
     order |-> updates.order]

\* ------------------------------------------------------- board view-model
getTasksByStatus(tasks, status) ==
    SelectSeqBy(tasks, {t \in Range(tasks) : t.status = status})

\* tasks.find((t) => t.id === taskId): <<>> when there is none
FindTask(tasks, taskId) ==
    LET hits == SelectSeqBy(tasks, {t \in Range(tasks) : t.id = taskId})
    IN IF hits = <<>> THEN <<>> ELSE <<Head(hits)>>

\* the next order counted over the tasks whose columnId is the status's column
NextOrder_ByColumn(tasks, status) ==
    Cardinality({i \in 1..Len(tasks) :
                    tasks[i].columnId = STATUS_COLUMN_MAP[status]})

\* tasks.filter((t) => t.status === status).length
NextOrder(tasks, status) == Len(getTasksByStatus(tasks, status))

\* ------------------------------------------------------- optimistic edits
\* the optimistic task built without a status
OptimisticTask_NoStatus(newTask, now) ==
    [id |-> "temp-" \o String(now),
     title |-> newTask.title,
     description |-> OrElse(newTask.description, Undefined),
     status |-> Undefined,
     createdAt |-> now,
     updatedAt |-> now,
     backendId |-> NoBackendId,
     columnId |-> newTask.column_id,
     order |-> newTask.order,
     priority |-> Undefined]

OptimisticTask(newTask, now) ==
    [id |-> "temp-" \o String(now),
     title |-> newTask.title,
     description |-> OrElse(newTask.description, Undefined),
     status |-> "todo",
     createdAt |-> now,
     updatedAt |-> now,
     backendId |-> NoBackendId,
     columnId |-> newTask.column_id,
     order |-> newTask.order,
     priority |-> Undefined]

OptimisticCreate(previousTasks, newTask, now) ==
    Append(previousTasks, OptimisticTask(newTask, now))

\* { ...task, ...data, updatedAt }: only the keys present in data overwrite
MergeUpdate(task, data, now) ==
    [task EXCEPT !.title = IF data.title = Absent THEN @ ELSE data.title,
                 !.description = IF data.description = Absent THEN @
                                 ELSE data.description,
                 !.order = IF data.order = AbsentNum THEN @ ELSE data.order,
                 !.updatedAt = now]

\* an update that puts the merged task at the front of the array
OptimisticUpdate_ToFront(previousTasks, taskId, data, now) ==
    LET hit == {t \in Range(previousTasks) : t.backendId = taskId}
        merged(t) == MergeUpdate(t, data, now)
    IN SelectSeqBy([i \in 1..Len(previousTasks) |->
                       merged(previousTasks[i])],
                   {merged(t) : t \in hit})
       \o SelectSeqBy(previousTasks, Range(previousTasks) \ hit)

RECURSIVE OptimisticUpdate(_, _, _, _)
\* previousTasks.map(task => task.backendId === taskId ? merged : task)
OptimisticUpdate(previousTasks, taskId, data, now) ==
    IF previousTasks = <<>> THEN <<>>
    ELSE <<IF Head(previousTasks).backendId = taskId
           THEN MergeUpdate(Head(previousTasks), data, now)
           ELSE Head(previousTasks)>>
         \o OptimisticUpdate(Tail(previousTasks), taskId, data, now)

\* a delete that removes the first task of the array, whatever its id
OptimisticDelete_First(previousTasks, taskId) ==
    IF previousTasks = <<>> THEN <<>> ELSE Tail(previousTasks)

\* previousTasks.filter((task) => task.backendId !== taskId)
OptimisticDelete(previousTasks, taskId) ==
    SelectSeqBy(previousTasks,
                {t \in Range(previousTasks) : t.backendId # taskId})

\* a moved task that also takes the status of the target column
MovedTask_WithStatus(task, targetColumnId, newOrder, now) ==
    [task EXCEPT !.columnId = targetColumnId,
                 !.order = newOrder,
                 !.updatedAt = now,
                 !.status = IF targetColumnId \in DOMAIN COLUMN_STATUS_MAP
                            THEN COLUMN_STATUS_MAP[targetColumnId] ELSE @]

\* { ...task, columnId, order, updatedAt }
MovedTask(task, targetColumnId, newOrder, now) ==
    [task EXCEPT !.columnId = targetColumnId,
                 !.order = newOrder,
                 !.updatedAt = now]

RECURSIVE OptimisticMove(_, _, _, _, _)
\* previousTasks.map(task => task.backendId === taskId ? moved : task)
OptimisticMove(previousTasks, taskId, targetColumnId, newOrder, now) ==
    IF previousTasks = <<>> THEN <<>>
    ELSE <<IF Head(previousTasks).backendId = taskId
           THEN MovedTask(Head(previousTasks), targetColumnId, newOrder, now)
           ELSE Head(previousTasks)>>
         \o OptimisticMove(Tail(previousTasks), taskId, targetColumnId,
                           newOrder, now)

\* an onError that leaves the cache as it finds it
Rollback_NoRestore(context, current) == current

\* onError: setQueryData(tasks, context.previousTasks) when there is a snapshot
Rollback(context, current) ==
    IF context.hasPrevious THEN context.previousTasks ELSE current

\* ------------------------------------------------------------ the backend
\* The remote task store is an external collaborator; it is modelled as a
\* store that applies the request it is sent (kanban.service.ts issues them).
BackendTask(id, title, description, column_id, order, created_at) ==
    [id |-> id, title |-> title, description |-> description,
     column_id |-> column_id, order |-> order, created_at |-> created_at]

BackendColumn(id, order) == [id |-> id, order |-> order]

\* what the backend may hold when the page is opened: the task list and the
\* column list (GET /columns/ returns the columns in any order)
InitialBackends ==
    { [tasks |-> << BackendTask(1, "Write report", Null, 1, 0, 0),
                    BackendTask(2, "Fix bug", "", 1, 1, 0) >>,
       columns |-> << BackendColumn(3, 2), BackendColumn(1, 0),
                      BackendColumn(2, 1) >>],
      [tasks |-> << BackendTask(1, "Write report", "notes", 2, 0, 0),
                    BackendTask(2, "Fix bug", Null, 4, 0, 0) >>,
       columns |-> << BackendColumn(1, 0), BackendColumn(2, 1),
                      BackendColumn(4, 3) >>] }

ServerHas(srv, taskId) == \E i \in 1..Len(srv) : srv[i].id = taskId

RECURSIVE ServerMap(_, _, _)
\* replace the record with the given id by `new`
ServerMap(srv, taskId, new) ==
    IF srv = <<>> THEN <<>>
    ELSE <<IF Head(srv).id = taskId THEN new ELSE Head(srv)>>
         \o ServerMap(Tail(srv), taskId, new)

ServerGet(srv, taskId) ==
    Head(SelectSeqBy(srv, {b \in Range(srv) : b.id = taskId}))

\* POST /tasks/
ServerCreate(srv, id, data, now) ==
    Append(srv, BackendTask(id, data.title, data.description,
                            data.column_id, data.order, now))

\* PUT /tasks/{id}
ServerUpdate(srv, taskId, data) ==
    LET old == ServerGet(srv, taskId)
    IN ServerMap(srv, taskId,
          [old EXCEPT !.title = IF data.title = Absent THEN @ ELSE data.title,
                      !.description = IF data.description = Absent THEN @
                                      ELSE data.description,
                      !.order = IF data.order = AbsentNum THEN @
                                ELSE data.order])

\* DELETE /tasks/{id}
ServerDelete(srv, taskId) ==
    SelectSeqBy(srv, {b \in Range(srv) : b.id # taskId})

\* PATCH /tasks/{id}/move
ServerMove(srv, taskId, targetColumnId, newOrder) ==
    LET old == ServerGet(srv, taskId)
    IN ServerMap(srv, taskId, [old EXCEPT !.column_id = targetColumnId,
                                          !.order = newOrder])

RECURSIVE MapTransform(_)
\* backendTasks.map(transformBackendTask)
MapTransform(backendTasks) ==
    IF backendTasks = <<>> THEN <<>>
    ELSE <<transformBackendTask(Head(backendTasks))>>
         \o MapTransform(Tail(backendTasks))

\* ---------------------------------------------------------------- state
VARIABLES
    server,          \* backend: the task records, in the order GET /tasks/ lists them
    nextId,          \* backend: the id the next created task gets
    serverColumns,   \* backend: the column records
    cache,           \* query data under kanbanKeys.tasks()
    loaded,          \* FALSE while that query has no data (getQueryData is undefined)
    fetching,        \* TRUE while a GET /tasks/ of the tasks query is in flight
    backendColumns,  \* query data of useColumns (default [])
    columnsLoaded,   \* FALSE while the columns query is loading
    mutations,       \* the mutations that have started and not settled
    ops,             \* number of user gestures handled so far
    clock,           \* Date.now()
    activeId,        \* id of the card being dragged (event.active.id), "" when idle
    activeTask,      \* useState<Task | null>: <<>> is null, <<t>> a task
    dialogOpen,      \* status of the column whose create dialog is open, "" when none
    succeeded,       \* history: the create mutations whose remote call succeeded
    lastEvent        \* history: the handler that ran last and its outcome

vars == <<server, nextId, serverColumns, cache, loaded, fetching,
          backendColumns, columnsLoaded, mutations, ops, clock,
          activeId, activeTask, dialogOpen, succeeded, lastEvent>>

Event(op, mid, id, arg, result) ==
    [op |-> op, mid |-> mid, id |-> id, arg |-> arg, result |-> result]

NoDrag == ""

NoDialog == ""

\* -------------------------------------------------- KanbanBoard.columns
RECURSIVE InsertByOrder(_, _)
InsertByOrder(col, sorted) ==
    IF sorted = <<>> THEN <<col>>
    ELSE IF col.order < Head(sorted).order THEN <<col>> \o sorted
         ELSE <<Head(sorted)>> \o InsertByOrder(col, Tail(sorted))

RECURSIVE SortByOrder(_)
\* backendColumns.sort((a, b) => a.order - b.order)
SortByOrder(cols) ==
    IF cols = <<>> THEN <<>>
    ELSE InsertByOrder(cols[Len(cols)], SortByOrder(SubSeq(cols, 1, Len(cols) - 1)))

RECURSIVE MapColumnStatus(_)
\* .map((col) => COLUMN_STATUS_MAP[col.id]).filter((status) => status !== undefined)
MapColumnStatus(cols) ==
    IF cols = <<>> THEN <<>>
    ELSE (IF LookupColumnStatus(Head(cols).id) = Undefined THEN <<>>
          ELSE <<LookupColumnStatus(Head(cols).id)>>)
         \o MapColumnStatus(Tail(cols))

Columns(cols) == MapColumnStatus(SortByOrder(cols))

\* the board is rendered (neither the loading nor the error screen)
BoardShown == loaded /\ columnsLoaded

\* onMutate taken for a task of its own: other events may run before it
MicrotaskPending_Never == FALSE

\* a microtask is queued: nothing but microtasks runs before it
MicrotaskPending == \E m \in mutations : m.pc = "onMutate"

\* the cards on the board: tasks listed in a rendered column
CardIds ==
    LET shown == Range(Columns(backendColumns))
    IN {cache[i].id : i \in {j \in 1..Len(cache) : cache[j].status \in shown}}

ColumnIds == Range(Columns(backendColumns))

\* ------------------------------------------------------------------ Init
Init ==
    /\ \E b \in InitialBackends : /\ server = b.tasks
                                  /\ serverColumns = b.columns
    /\ nextId = 3
    /\ cache = <<>>
    /\ loaded = FALSE
    /\ fetching = TRUE
    /\ backendColumns = <<>>
    /\ columnsLoaded = FALSE
    /\ mutations = {}
    /\ ops = 0
    /\ clock = 0
    /\ activeId = NoDrag
    /\ activeTask = <<>>
    /\ dialogOpen = NoDialog
    /\ succeeded = {}
    /\ lastEvent = Event("init", 0, "", "", "")

\* --------------------------------------------------------------- queries
\* useColumns: GET /columns/ answers
FetchColumnsDone ==
    /\ ~columnsLoaded
    /\ ~MicrotaskPending
    /\ backendColumns' = serverColumns
    /\ columnsLoaded' = TRUE
    /\ lastEvent' = Event("fetchColumns", 0, "", "", "")
    /\ UNCHANGED <<dialogOpen, server, nextId, serverColumns, cache, loaded, fetching,
                   mutations, ops, clock, activeId, activeTask, succeeded>>

\* useTasks: GET /tasks/ answers and the query data is replaced
FetchTasksDone ==
    /\ fetching
    /\ ~MicrotaskPending
    /\ cache' = MapTransform(server)
    /\ loaded' = TRUE
    /\ fetching' = FALSE
    /\ lastEvent' = Event("fetchTasks", 0, "", "", "")
    /\ UNCHANGED <<dialogOpen, server, nextId, serverColumns, backendColumns,
                   columnsLoaded, mutations, ops, clock, activeId,
                   activeTask, succeeded>>

\* ------------------------------------------------------ useKanban callbacks
\* `error` of the value useKanban returns: the error of the tasks query
\* (useTasks), null as long as GET /tasks/ answers.  The errors of the four
\* mutations are not part of the returned value, and the callbacks call
\* mutate(), which returns undefined and does not throw.
KanbanError == Null

NoRequest == [title |-> Absent, description |-> Absent, column_id |-> 0,
              order |-> AbsentNum]

\* STATUS_COLUMN_MAP[newStatus] of JavaScript: undefined (0) for a non-status
LookupStatusColumn(s) ==
    IF s \in DOMAIN STATUS_COLUMN_MAP THEN STATUS_COLUMN_MAP[s] ELSE 0

\* the guard without the backendId test
NotSynced_OnlyMissing(task) == task = <<>>

\* !task || !task.backendId, with task the result of tasks.find
NotSynced(task) == task = <<>> \/ task[1].backendId = NoBackendId

\* what the clock reads when onMutate of a mutation of the given kind runs.
\* A delete reads no clock.  A create builds its id from Date.now(): the
\* reading is that of the previous reading (same millisecond) or a later
\* one.  An update or a move only stamps updatedAt with new Date(): the
\* gesture comes a later millisecond, as long as the clock is below its bound.
Readings(kind) ==
    CASE kind = "delete" -> {clock}
      [] kind = "create" -> {now \in {clock, clock + 1} : now <= MaxClock}
      [] OTHER -> {IF clock < MaxClock THEN clock + 1 ELSE clock}

\* xxxMutation.mutate(variables): the mutation starts, onMutate is queued
Mutate(kind, taskId, data, status) ==
    /\ Cardinality(mutations) < MaxInFlight
    /\ \E now \in Readings(kind) : clock' = now
    /\ mutations' = mutations \cup
          {[mid |-> ops + 1, kind |-> kind, taskId |-> taskId, data |-> data,
            status |-> status, pc |-> "onMutate", began |-> cache,
            context |-> [hasPrevious |-> FALSE, previousTasks |-> <<>>],
            tempId |-> "", attempts |-> 0]}

\* the inputs of updateTask: Partial<Task>
Updates == { [title |-> "Fix bug", description |-> "", order |-> 1] }

UserCanAct ==
    /\ BoardShown /\ ~MicrotaskPending /\ ops < MaxOps
    /\ activeId = NoDrag /\ dialogOpen = NoDialog

\* addTask as called by the form; the caller's frame is in onSubmit
addTask(task) ==
    LET order == NextOrder(cache, task.status)
        createRequest == transformToCreateRequest(task, order)
    IN /\ Mutate("create", 0, createRequest, task.status)
       /\ lastEvent' = Event("addTask", ops + 1, "", task.status, "mutate")

\* ------------------------------------------------------ task creation form
\* text typed into a field is a sequence of characters
Repeat(c, n) == [i \in 1..n |-> c]

RECURSIVE TrimStart(_)
TrimStart(chars) ==
    IF chars # <<>> /\ Head(chars) = " " THEN TrimStart(Tail(chars)) ELSE chars

RECURSIVE TrimEnd(_)
TrimEnd(chars) ==
    IF chars # <<>> /\ chars[Len(chars)] = " "
    THEN TrimEnd(SubSeq(chars, 1, Len(chars) - 1)) ELSE chars

\* String.prototype.trim
Trim(chars) == TrimEnd(TrimStart(chars))

RECURSIVE Join(_)
\* the characters as one string value
Join(chars) == IF chars = <<>> THEN "" ELSE Head(chars) \o Join(Tail(chars))

TitleMin == 3
TitleMax == 200

\* taskCreateSchema.safeParse: the checks of a zod string run in the order
\* they are chained -- title: min(3), max(200), then trim; description: trim
\* a failed parse carries no data
taskCreateSchema(values) ==
    LET success == /\ Len(values.title) >= TitleMin
                   /\ Len(values.title) <= TitleMax
                   /\ values.status \in Statuses
    IN [success |-> success,
        data |-> IF success
                 THEN [title |-> Join(Trim(values.title)),
                       description |-> Join(Trim(values.description)),
                       status |-> values.status]
                 ELSE [title |-> Undefined, description |-> Undefined,
                       status |-> Undefined]]

\* what the user types into the dialog of a column
FormValues ==
    { [status |-> "todo",
       title |-> <<"W", "r", "i", "t", "e", " ", "r", "e", "p", "o", "r", "t">>,
       description |-> <<"n", "o", "t", "e", "s">>],
      [status |-> "todo", title |-> <<"a", "b">>, description |-> <<>>],
      [status |-> "in-progress", title |-> <<" ", "a", " ">>,
       description |-> <<>>],
      [status |-> "in-progress", title |-> Repeat("x", TitleMax + 1),
       description |-> <<>>] }

\* the columns whose dialog the user opens
DialogStatuses == {v.status : v \in FormValues}

\* AddTaskButton onClick: setDialogOpen(true); the dialog is modal
openDialog(status) ==
    /\ UserCanAct
    /\ status \in ColumnIds
    /\ dialogOpen' = status
    /\ lastEvent' = Event("openDialog", 0, "", "", "")
    /\ UNCHANGED <<server, nextId, serverColumns, cache, loaded, fetching,
                   backendColumns, columnsLoaded, mutations, ops, clock,
                   activeId, activeTask, succeeded>>

\* form.handleSubmit(onSubmit): onSubmit runs only with values the schema
\* accepts; it calls addTask, form.reset() and onSuccess(), which closes the
\* dialog (TaskCreateDialog.handleSuccess)
onSubmit(values) ==
    /\ dialogOpen # NoDialog
    /\ values.status = dialogOpen
    /\ ~MicrotaskPending
    /\ ops < MaxOps
    /\ ops' = ops + 1
    /\ LET parsed == taskCreateSchema(values)
       IN IF parsed.success
          THEN /\ addTask([title |-> parsed.data.title,
                           description |->
                              OrElse(parsed.data.description, Undefined),
                           status |-> parsed.data.status])
               /\ dialogOpen' = NoDialog
          ELSE /\ lastEvent' = Event("onSubmit", 0, "", values.status, "invalid")
               /\ UNCHANGED <<mutations, clock, dialogOpen>>
    /\ UNCHANGED <<server, nextId, serverColumns, cache, loaded, fetching,
                   backendColumns, columnsLoaded, activeId,
                   activeTask, succeeded>>

\* the Cancel button: TaskCreateDialog.handleCancel closes the dialog
handleCancel ==
    /\ dialogOpen # NoDialog
    /\ ~MicrotaskPending
    /\ ops < MaxOps
    /\ ops' = ops + 1
    /\ dialogOpen' = NoDialog
    /\ lastEvent' = Event("handleCancel", 0, "", "", "")
    /\ UNCHANGED <<server, nextId, serverColumns, cache, loaded, fetching,
                   backendColumns, columnsLoaded, mutations, clock,
                   activeId, activeTask, succeeded>>

updateTask(taskId, updates) ==
    /\ UserCanAct
    /\ ops' = ops + 1
    /\ LET task == FindTask(cache, taskId)
       IN IF NotSynced(task)
          THEN /\ lastEvent' = Event("updateTask", 0, taskId, "", "NotSynced")
               /\ UNCHANGED <<mutations, clock>>
          ELSE /\ Mutate("update", task[1].backendId,
                         transformToUpdateRequest(updates) @@ NoRequest, "")
               /\ lastEvent' = Event("updateTask", ops + 1, taskId, "", "mutate")
    /\ UNCHANGED <<dialogOpen, server, nextId, serverColumns, cache, loaded, fetching,
                   backendColumns, columnsLoaded, activeId,
                   activeTask, succeeded>>

deleteTask(taskId) ==
    /\ UserCanAct
    /\ ops' = ops + 1
    /\ LET task == FindTask(cache, taskId)
       IN IF NotSynced(task)
          THEN /\ lastEvent' = Event("deleteTask", 0, taskId, "", "NotSynced")
               /\ UNCHANGED <<mutations, clock>>
          ELSE /\ Mutate("delete", task[1].backendId, NoRequest, "")
               /\ lastEvent' = Event("deleteTask", ops + 1, taskId, "", "mutate")
    /\ UNCHANGED <<dialogOpen, server, nextId, serverColumns, cache, loaded, fetching,
                   backendColumns, columnsLoaded, activeId,
                   activeTask, succeeded>>

\* moveTask as called by handleDragEnd; op names the calling handler
moveTask(taskId, newStatus, op) ==
    LET task == FindTask(cache, taskId)
    IN IF NotSynced(task)
       THEN /\ lastEvent' = Event(op, 0, taskId, newStatus, "NotSynced")
            /\ UNCHANGED <<mutations, clock>>
       ELSE LET targetColumnId == LookupStatusColumn(newStatus)
                newOrder == NextOrder(cache, newStatus)
            IN /\ Mutate("move", task[1].backendId,
                         [NoRequest EXCEPT !.column_id = targetColumnId,
                                           !.order = newOrder], newStatus)
               /\ lastEvent' = Event(op, ops + 1, taskId, newStatus, "mutate")

\* ------------------------------------------------------------ drag handler
handleDragStart(id) ==
    /\ UserCanAct
    /\ id \in CardIds
    /\ activeId' = id
    /\ activeTask' = FindTask(cache, id)
    /\ lastEvent' = Event("dragStart", 0, "", "", "")
    /\ UNCHANGED <<dialogOpen, server, nextId, serverColumns, cache, loaded, fetching,
                   backendColumns, columnsLoaded, mutations, ops, clock,
                   succeeded>>

\* a drag end that takes every drop target for a column
IsValidColumn_Any(columns, overId) == TRUE

\* columns.includes(newStatus)
IsValidColumn(columns, overId) == overId \in Range(columns)

handleDragEnd(over) ==
    /\ activeId # NoDrag
    /\ ~MicrotaskPending
    /\ ops' = ops + 1
    /\ IF over = Null
       THEN /\ lastEvent' = Event("dragEnd", 0, "", "", "noTarget")
            /\ UNCHANGED <<mutations, clock>>
       ELSE IF IsValidColumn(Columns(backendColumns), over)
            THEN moveTask(activeId, over, "dragEnd")
            ELSE /\ lastEvent' = Event("dragEnd", 0, "", "", "notColumn")
                 /\ UNCHANGED <<mutations, clock>>
    /\ activeId' = NoDrag
    /\ activeTask' = <<>>
    /\ UNCHANGED <<dialogOpen, server, nextId, serverColumns, cache, loaded, fetching,
                   backendColumns, columnsLoaded, succeeded>>

\* the drag is cancelled (Escape, the window loses the pointer): the drag and
\* drop library ends the drag and calls onDragCancel, not onDragEnd.
\* DndContext is given onDragStart and onDragEnd only, so no code of the
\* board runs and activeTask keeps its value.
onDragCancel ==
    /\ activeId # NoDrag
    /\ ~MicrotaskPending
    /\ ops' = ops + 1
    /\ activeId' = NoDrag
    /\ lastEvent' = Event("dragCancel", 0, "", "", "")
    /\ UNCHANGED <<dialogOpen, server, nextId, serverColumns, cache, loaded,
                   fetching, backendColumns, columnsLoaded, mutations, clock,
                   activeTask, succeeded>>

\* ------------------------------------------------------- mutation handlers
\* the cache after the optimistic edit of mutation m on previousTasks
OptimisticEdit(m, previousTasks, now) ==
    CASE m.kind = "create" -> OptimisticCreate(previousTasks, m.data, now)
      [] m.kind = "update" ->
            OptimisticUpdate(previousTasks, m.taskId,
                [title |-> m.data.title, description |-> m.data.description,
                 order |-> m.data.order], now)
      [] m.kind = "delete" -> OptimisticDelete(previousTasks, m.taskId)
      [] m.kind = "move" ->
            OptimisticMove(previousTasks, m.taskId, m.data.column_id,
                           m.data.order, now)

\* an onMutate that issues the request without snapshot and optimistic edit
onMutate_NoEdit(m) ==
    /\ m.pc = "onMutate"
    /\ fetching' = FALSE
    /\ mutations' = (mutations \ {m}) \cup
          {[m EXCEPT !.pc = "sent", !.attempts = 1]}
    /\ lastEvent' = Event("onMutate", m.mid, "", m.kind, "")
    /\ UNCHANGED <<dialogOpen, server, nextId, serverColumns, cache, loaded,
                   backendColumns, columnsLoaded, ops, clock, activeId,
                   activeTask, succeeded>>

\* an onMutate whose cancelQueries also cancels the mutations in flight
onMutate_CancelsMutations(m) ==
    /\ m.pc = "onMutate"
    /\ fetching' = FALSE
    /\ cache' = IF loaded THEN OptimisticEdit(m, cache, clock) ELSE cache
    /\ mutations' =
          {[m EXCEPT !.pc = "sent",
                     !.context = [hasPrevious |-> loaded,
                                  previousTasks |-> IF loaded THEN cache ELSE <<>>],
                     !.tempId = IF m.kind = "create" /\ loaded
                                THEN OptimisticTask(m.data, clock).id ELSE "",
                     !.attempts = 1]}
    /\ lastEvent' = Event("onMutate", m.mid, "", m.kind, "")
    /\ UNCHANGED <<dialogOpen, server, nextId, serverColumns, loaded, backendColumns,
                   columnsLoaded, ops, clock, activeId, activeTask, succeeded>>

\* onMutate: cancelQueries, snapshot, optimistic edit, return { previousTasks }
onMutate(m) ==
    /\ m.pc = "onMutate"
    /\ fetching' = FALSE
    /\ cache' = IF loaded THEN OptimisticEdit(m, cache, clock) ELSE cache
    /\ mutations' = (mutations \ {m}) \cup
          {[m EXCEPT !.pc = "sent",
                     !.context = [hasPrevious |-> loaded,
                                  previousTasks |-> IF loaded THEN cache ELSE <<>>],
                     !.tempId = IF m.kind = "create" /\ loaded
                                THEN OptimisticTask(m.data, clock).id ELSE "",
                     !.attempts = 1]}
    /\ lastEvent' = Event("onMutate", m.mid, "", m.kind, "")
    /\ UNCHANGED <<dialogOpen, server, nextId, serverColumns, loaded, backendColumns,
                   columnsLoaded, ops, clock, activeId, activeTask, succeeded>>

\* what the backend holds after it has applied the request of m
ServerApply(srv, id, m, now) ==
    CASE m.kind = "create" -> ServerCreate(srv, id, m.data, now)
      [] m.kind = "update" -> ServerUpdate(srv, m.taskId, m.data)
      [] m.kind = "delete" -> ServerDelete(srv, m.taskId)
      [] m.kind = "move" ->
            ServerMove(srv, m.taskId, m.data.column_id, m.data.order)

\* the call succeeds: the backend has applied the request and the response
\* arrives; onSuccess invalidates the tasks query, which refetches
onSuccess(m) ==
    /\ m.pc = "sent"
    /\ ~MicrotaskPending
    /\ m.kind # "create" => ServerHas(server, m.taskId)
    /\ server' = ServerApply(server, nextId, m, clock)
    /\ nextId' = IF m.kind = "create" THEN nextId + 1 ELSE nextId
    /\ fetching' = TRUE
    /\ mutations' = mutations \ {m}
    /\ succeeded' = IF m.kind = "create"
                    THEN succeeded \cup {[tempId |-> m.tempId,
                                         serverId |-> nextId,
                                         data |-> m.data]}
                    ELSE succeeded
    /\ lastEvent' = Event("onSuccess", m.mid, "", m.kind, "")
    /\ UNCHANGED <<dialogOpen, serverColumns, cache, loaded, backendColumns,
                   columnsLoaded, ops, clock, activeId, activeTask>>

\* the call fails (the request does not reach the backend, or the backend
\* rejects it): onError rolls back
onError(m) ==
    /\ m.pc = "sent"
    /\ ~MicrotaskPending
    /\ cache' = Rollback(m.context, cache)
    /\ mutations' = mutations \ {m}
    /\ lastEvent' = Event("onError", m.mid, String(m.taskId), m.kind, "")
    /\ UNCHANGED <<dialogOpen, server, nextId, serverColumns, loaded, fetching,
                   backendColumns, columnsLoaded, ops, clock, activeId,
                   activeTask, succeeded>>

\* defaultOptions.queries.retry
QueriesRetry == 1

\* the retry of the queries, taken for the mutations too
MutationRetry_AsQueries == QueriesRetry

\* `retry` of a mutation: the four useMutation calls give no retry option and
\* defaultOptions has no mutations entry, so the library default applies
MutationRetry == 0

\* the retryer calls mutationFn again: one more request, nothing else changes
retryRequest(m) ==
    /\ m.pc = "sent"
    /\ ~MicrotaskPending
    /\ mutations' = (mutations \ {m}) \cup
          {[m EXCEPT !.attempts = m.attempts + 1]}
    /\ lastEvent' = Event("retry", m.mid, String(m.taskId), m.kind, "")
    /\ UNCHANGED <<dialogOpen, server, nextId, serverColumns, cache, loaded,
                   fetching, backendColumns, columnsLoaded, ops, clock,
                   activeId, activeTask, succeeded>>

\* a request of the mutation fails: it is retried while failed requests are
\* within `retry`, then the mutation fails and onError runs
requestFails(m) ==
    IF m.attempts <= MutationRetry THEN retryRequest(m) ELSE onError(m)

\* ------------------------------------------------------------------ Next
Next ==
    \/ FetchColumnsDone
    \/ FetchTasksDone
    \/ \E status \in DialogStatuses : openDialog(status)
    \/ \E values \in FormValues : onSubmit(values)
    \/ handleCancel
    \/ \E id \in Range([i \in 1..Len(cache) |-> cache[i].id]) :
          \E updates \in Updates : updateTask(id, updates)
    \/ \E id \in Range([i \in 1..Len(cache) |-> cache[i].id]) : deleteTask(id)
    \/ \E id \in CardIds : handleDragStart(id)
    \/ \E over \in {Null} \cup ColumnIds \cup CardIds : handleDragEnd(over)
    \/ onDragCancel
    \/ \E m \in mutations : onMutate(m)
    \/ \E m \in mutations : onSuccess(m)
    \/ \E m \in mutations : requestFails(m)

Spec == Init /\ [][Next]_vars

\* ---------------------------------------------------------------- fairness
\* the mutation started by gesture k takes its next step after the request:
\* the response arrives, or the request fails (at the latest by the timeout
\* of apiClient)
Settle(k) ==
    \E m \in mutations : m.mid = k /\ (onSuccess(m) \/ requestFails(m))

\* the page is opened on the backend that holds a task of a mapped and a task
\* of an unmapped column
LiveInit == Init /\ \E i \in 1..Len(server) : server[i].column_id = 4

\* a queued onMutate runs (the microtask queue is drained) and every request
\* gets its response or its failure
LiveSpec ==
    /\ LiveInit /\ [][Next]_vars
    /\ WF_vars(\E m \in mutations : onMutate(m))
    /\ \A k \in 1..MaxOps : WF_vars(Settle(k))

\* ======================================================================
\* Properties
\* ======================================================================
\* the mutation the last event belongs to
EventMutation == {m \in mutations : m.mid = lastEvent.mid}

\* the statuses under which the board lists task t
ListedUnder(tasks, t) ==
    {s \in Statuses : t \in Range(getTasksByStatus(tasks, s))}

\* number of tasks of the array whose columnId is c
CountInColumn(tasks, c) ==
    Cardinality({i \in 1..Len(tasks) : tasks[i].columnId = c})

\* the optimistic edit of a create has just been applied
JustCreated == lastEvent.op = "onMutate" /\ lastEvent.arg = "create"

\* the optimistic edit of a move has just been applied
JustMoved == lastEvent.op = "onMutate" /\ lastEvent.arg = "move"

\* C1: when the remote call of a mutation fails, the cache after the onError
\* rollback equals the cache as it was when the mutation began (at mutate()).
RollbackRestoresCache ==
    [][\A m \in mutations :
          (lastEvent'.op = "onError" /\ lastEvent'.mid = m.mid
             /\ m \notin mutations')
          => cache' = m.began]_vars

\* a failed delete has been rolled back and the removed task is back
RollbackWitness ==
    /\ lastEvent.op = "onError"
    /\ lastEvent.arg = "delete"
    /\ Len(cache) = Len(server)
    /\ Len(cache) = 2

\* C2: right after the optimistic edit of a create, the board lists the new
\* task in exactly one column.
CreatedListedOnce ==
    JustCreated => Cardinality(ListedUnder(cache, cache[Len(cache)])) = 1

CreatedListedOnceWitness ==
    JustCreated /\ cache[Len(cache)].columnId = 2

\* C3: right after the optimistic edit of addTask with status s, the board
\* lists the synthetic task in the column of s and in no other column.
CreatedUnderTargetColumn ==
    JustCreated =>
       \A m \in EventMutation :
          ListedUnder(cache, cache[Len(cache)]) = {m.status}

\* C4: the create request carries the column mapped to the status and, as
\* order, the number of tasks currently in that column.
CreateRequestColumnAndOrder ==
    \A m \in mutations :
       m.kind = "create" =>
          /\ m.data.column_id = STATUS_COLUMN_MAP[m.status]
          /\ m.data.order = CountInColumn(m.began, m.data.column_id)

\* the values of the task with the given backendId, as (columnId, order) pairs
ColumnAndOrder(tasks, backendId) ==
    {<<t.columnId, t.order>> : t \in {u \in Range(tasks) : u.backendId = backendId}}

\* C5: moveTask optimistically sets the task's columnId to the column of the
\* target status and its order to the number of tasks currently in the
\* target column; when the call fails the task has its pre-move columnId and
\* order again.
MoveSetsColumnAndOrder ==
    [][\A m \in mutations :
          /\ (m.kind = "move" /\ m.pc = "onMutate" /\ lastEvent'.op = "onMutate"
                /\ lastEvent'.mid = m.mid)
             => ColumnAndOrder(cache', m.taskId) =
                  {<<STATUS_COLUMN_MAP[m.status],
                     CountInColumn(m.began, STATUS_COLUMN_MAP[m.status])>>}
          /\ (m.kind = "move" /\ lastEvent'.op = "onError"
                /\ lastEvent'.mid = m.mid /\ m \notin mutations')
             => ColumnAndOrder(cache', m.taskId) =
                  ColumnAndOrder(m.began, m.taskId)]_vars

\* the status the board showed the moved task under when the move began
SourceStatuses(m) ==
    {t.status : t \in {u \in Range(m.began) : u.backendId = m.taskId}}

\* C6: right after the optimistic edit of a move to another column, the board
\* lists the task in the target column and no longer in its source column.
MovedTaskShownInTarget ==
    JustMoved =>
       \A m \in EventMutation :
          m.status \notin SourceStatuses(m) =>
             \A t \in {u \in Range(cache) : u.backendId = m.taskId} :
                ListedUnder(cache, t) = {m.status}

\* nothing is in flight: no mutation and no fetch of the tasks query
Quiescent == mutations = {} /\ ~fetching /\ loaded

\* C7: once the remote call of a create has succeeded and everything has
\* settled, the cache holds the server's record of the new task and no task
\* with the synthetic id.
CreatedTaskReconciled ==
    Quiescent =>
       \A c \in succeeded :
          /\ \A t \in Range(cache) : t.id # c.tempId
          /\ ServerHas(server, c.serverId) =>
                transformBackendTask(ServerGet(server, c.serverId))
                   \in Range(cache)

\* the task with the given id is in the array and has no backendId
IsSynthetic(tasks, id) ==
    \E t \in Range(tasks) : t.id = id /\ t.backendId = NoBackendId

IsFetchedColumn(status) ==
    \E i \in 1..Len(backendColumns) :
       LookupColumnStatus(backendColumns[i].id) = status

\* C9: a drag end calls moveTask only when the region under the pointer is a
\* column of the fetched column list; otherwise no mutation starts and the
\* tasks cache is unchanged.
DragEndMovesOnlyOverColumn ==
    [][(activeId # NoDrag /\ activeId' = NoDrag)
       => IF lastEvent'.result \in {"mutate", "NotSynced"}
          THEN IsFetchedColumn(lastEvent'.arg)
          ELSE /\ mutations' = mutations
               /\ cache' = cache
               /\ server' = server]_vars

\* a drag ended over a task card and a drag ended over a column
DragEndWitness ==
    /\ lastEvent.op = "dragEnd"
    /\ lastEvent.result = "notColumn"
    /\ activeId = NoDrag
    /\ ops = 2
    /\ \E m \in mutations : m.kind = "move"

IsUnmapped(t) == t.columnId \notin DOMAIN COLUMN_STATUS_MAP

IsSortedByOrder(tasks) ==
    \A i \in 1..Len(tasks) : \A j \in 1..Len(tasks) :
       i < j => tasks[i].order <= tasks[j].order

\* C11: for each status, the list the board view-model produces is sorted by
\* the tasks' order field ascending, whatever the order of the cache array.
ListsSortedByOrder ==
    loaded => \A s \in Statuses : IsSortedByOrder(getTasksByStatus(cache, s))

\* the order values of the tasks of the array whose columnId is c
OrdersInColumn(tasks, c) ==
    {tasks[i].order : i \in {j \in 1..Len(tasks) : tasks[j].columnId = c}}

\* in every column the order values are exactly 0 .. n-1, without duplicates
OrdersContiguous(tasks) ==
    \A c \in {tasks[i].columnId : i \in 1..Len(tasks)} :
       OrdersInColumn(tasks, c) = 0..(CountInColumn(tasks, c) - 1)

\* C12: from a cache whose columns have the order values 0 .. n-1, after a
\* create, move or delete that has settled (success and refetch, or failure
\* and rollback) with no other operation overlapping it, every column again
\* has the order values 0 .. n-1 without duplicates.  Stated for the first
\* operation on the board.
OrdersContiguousAfterSettling ==
    (Quiescent /\ ops <= 1 /\ lastEvent.op \in {"fetchTasks", "onError"})
       => OrdersContiguous(cache)

\* C13: the two lookup tables are one bijection, total over the three
\* statuses, so a task created with status s and read back through
\* transformBackendTask has status s.
MapsAreOneBijection ==
    /\ DOMAIN STATUS_COLUMN_MAP = Statuses
    /\ \A s \in Statuses : LookupColumnStatus(LookupStatusColumn(s)) = s
    /\ \A c \in DOMAIN COLUMN_STATUS_MAP :
          LookupStatusColumn(COLUMN_STATUS_MAP[c]) = c
    /\ \A s \in Statuses :
          transformBackendTask(
             Head(ServerCreate(<<>>, nextId,
                     transformToCreateRequest(
                        [title |-> "Write report", description |-> "",
                         status |-> s], 0), clock))).status = s
    /\ \A m \in mutations :
          m.kind = "create" =>
             transformBackendTask(
                Head(ServerCreate(<<>>, nextId, m.data, clock))).status
                = m.status

\* a task created with status in-progress has been read back with that status
MapsWitness ==
    /\ \E c \in succeeded :
          \E t \in Range(cache) :
             t.backendId = c.serverId /\ t.status = "in-progress"
                /\ c.data.column_id = 2
    /\ \E m \in mutations : m.kind = "create" /\ m.status = "todo"

\* the array without its element at index k
RemoveAt(tasks, k) ==
    SubSeq(tasks, 1, k - 1) \o SubSeq(tasks, k + 1, Len(tasks))

\* the indexes at which the array holds the task with the given backendId
IndexesOf(tasks, backendId) ==
    {k \in 1..Len(tasks) : tasks[k].backendId = backendId}

\* C14: the optimistic edit of a delete removes exactly the deleted task (the
\* other tasks keep their values and relative order); when the remote call
\* fails the task is back at the index it had before the delete.
DeleteRemovesAndRestores ==
    [][\A m \in mutations :
          /\ (m.kind = "delete" /\ m.pc = "onMutate"
                /\ lastEvent'.op = "onMutate" /\ lastEvent'.mid = m.mid)
             => /\ Cardinality(IndexesOf(cache, m.taskId)) = 1
                /\ \A k \in IndexesOf(cache, m.taskId) :
                      cache' = RemoveAt(cache, k)
          /\ (m.kind = "delete" /\ lastEvent'.op = "onError"
                /\ lastEvent'.mid = m.mid /\ m \notin mutations')
             => /\ IndexesOf(cache', m.taskId) = IndexesOf(m.began, m.taskId)
                /\ \A k \in IndexesOf(m.began, m.taskId) :
                      cache'[k] = m.began[k]]_vars

\* the delete of the first of two tasks has failed and the task is back
DeleteWitness ==
    /\ lastEvent.op = "onError"
    /\ lastEvent.arg = "delete"
    /\ Len(cache) = 2
    /\ cache[1].id = lastEvent.id
    /\ cache[2].id # lastEvent.id

\* what the board shows of a task: description "" , null and undefined all
\* render as no description
Visible(t) ==
    [id |-> t.id, title |-> t.title,
     description |-> OrElse(t.description, Undefined), status |-> t.status,
     columnId |-> t.columnId, order |-> t.order]

\* what the board shows of the array, position by position
VisibleBoard(tasks) == [i \in 1..Len(tasks) |-> Visible(tasks[i])]

\* mutation m is an update whose every supplied field equals the value the
\* task had when updateTask was called
IsNoOpUpdate(m) ==
    /\ m.kind = "update"
    /\ \E t \in Range(m.began) : t.backendId = m.taskId
    /\ \A t \in {u \in Range(m.began) : u.backendId = m.taskId} :
          /\ m.data.title \in {Absent, t.title}
          /\ m.data.description = Absent
                \/ OrElse(m.data.description, Undefined)
                      = OrElse(t.description, Undefined)
          /\ m.data.order \in {AbsentNum, t.order}

\* the backend's record of the task of m shows what the cache showed when m
\* began
ServerShowsBegan(m) ==
    /\ ServerHas(server, m.taskId)
    /\ \A t \in {u \in Range(m.began) : u.backendId = m.taskId} :
          Visible(transformBackendTask(ServerGet(server, m.taskId)))
             = Visible(t)

\* C15: an update whose supplied fields all equal the task's current values
\* changes nothing the board shows: not with its optimistic edit, not with
\* what the backend holds (and the refetch delivers) after it succeeded, not
\* after the rollback when it failed.
NoOpUpdateChangesNothing ==
    [][\A m \in mutations :
          IsNoOpUpdate(m) =>
             /\ (m.pc = "onMutate" /\ lastEvent'.op = "onMutate"
                   /\ lastEvent'.mid = m.mid)
                => VisibleBoard(cache') = VisibleBoard(m.began)
             /\ (lastEvent'.op = "onSuccess" /\ lastEvent'.mid = m.mid
                   /\ m \notin mutations' /\ ServerShowsBegan(m))
                => VisibleBoard(MapTransform(server'))
                      = VisibleBoard(MapTransform(server))
             /\ (lastEvent'.op = "onError" /\ lastEvent'.mid = m.mid
                   /\ m \notin mutations')
                => VisibleBoard(cache') = VisibleBoard(m.began)]_vars

\* the update of task 2 with its own title, an empty description and its own
\* order has succeeded: the backend now holds a null description
NoOpUpdateWitness ==
    /\ lastEvent.op = "onSuccess"
    /\ lastEvent.arg = "update"
    /\ \E b \in Range(server) :
          b.id = 2 /\ b.title = "Fix bug" /\ b.description = Null
             /\ b.column_id = 1 /\ b.order = 1
    /\ \E b \in Range(server) : b.id = 1 /\ b.title = "Write report"

\* C16: a form submission whose title has fewer than 3 or more than 200
\* characters starts no mutation and leaves cache and backend untouched, and
\* every title carried by a create request has between 3 and 200 characters.
SubmittedTitlesInRange ==
    [][/\ \A values \in FormValues :
             (onSubmit(values) /\ Len(values.title) \notin TitleMin..TitleMax)
                => /\ mutations' = mutations
                   /\ cache' = cache
                   /\ server' = server
       /\ \A m \in mutations' :
             m.kind = "create" => Len(m.data.title) \in TitleMin..TitleMax]_vars

\* C17: when the remote call of a mutation has failed, the failure is, besides
\* the rollback, an error outcome the caller of the useKanban callback can
\* observe: an error the callback reports, or an error useKanban exposes.
FailureSurfacedToCaller ==
    lastEvent.op = "onError" =>
       (KanbanError # Null \/ lastEvent.result = "error")

\* C18: when the create request of a submitted form fails, the creation
\* dialog of that column is still open; a dialog is closed only for a
\* creation that succeeded or by Cancel.
DialogOpenUntilCreated ==
    [][/\ \A m \in mutations :
             (m.kind = "create" /\ lastEvent'.op = "onError"
                /\ lastEvent'.mid = m.mid /\ m \notin mutations')
             => dialogOpen' = m.status
       /\ (dialogOpen # NoDialog /\ dialogOpen' = NoDialog)
             => \/ lastEvent'.op = "handleCancel"
                \/ lastEvent'.op = "onSuccess" /\ lastEvent'.arg = "create"]_vars

\* the optimistic edit of mutation n shows in the array
EditPresent(n, tasks) ==
    CASE n.kind = "create" -> \E t \in Range(tasks) : t.id = n.tempId
      [] n.kind = "delete" -> \A t \in Range(tasks) : t.backendId # n.taskId
      [] n.kind = "update" ->
            \E t \in Range(tasks) :
               /\ t.backendId = n.taskId
               /\ n.data.title \in {Absent, t.title}
               /\ n.data.description = Absent
                     \/ OrElse(n.data.description, Undefined)
                           = OrElse(t.description, Undefined)
               /\ n.data.order \in {AbsentNum, t.order}
      [] n.kind = "move" ->
            \E t \in Range(tasks) :
               /\ t.backendId = n.taskId
               /\ t.columnId = n.data.column_id
               /\ t.order = n.data.order

\* the two mutations work on different tasks
DifferentTasks(m, n) ==
    IF m.kind = "create" /\ n.kind = "create" THEN m.tempId # n.tempId
    ELSE m.kind = "create" \/ n.kind = "create" \/ m.taskId # n.taskId

\* C19: when one of two mutations in flight on different tasks fails, the
\* optimistic edit of the other one is still in the cache after the rollback.
ConcurrentRollbackKeepsOtherEdit ==
    [][\A m \in mutations : \A n \in mutations :
          (/\ lastEvent'.op = "onError" /\ lastEvent'.mid = m.mid
           /\ m \notin mutations' /\ n \in mutations'
           /\ n.pc = "sent" /\ DifferentTasks(m, n)
           /\ EditPresent(n, cache))
          => EditPresent(n, cache')]_vars

\* C20: mutations are not retried: a call that passes its guards starts one
\* mutation, a mutation issues one remote request, and a failed request is
\* followed by the rollback, not by a second request.
MutationsNotRetried ==
    [][/\ lastEvent'.result = "mutate"
             => Cardinality(mutations') = Cardinality(mutations) + 1
       /\ \A m \in mutations' :
             m.attempts = IF m.pc = "sent" THEN 1 ELSE 0
       /\ \A m \in mutations :
             (lastEvent'.op \in {"onError", "retry"} /\ lastEvent'.mid = m.mid)
             => /\ lastEvent'.op = "onError"
                /\ \A n \in mutations' : n.mid # m.mid
                /\ cache' = Rollback(m.context, cache)]_vars

\* the request of a move has failed and the move is over: nothing in flight
MutationsNotRetriedWitness ==
    /\ lastEvent.op = "onError"
    /\ lastEvent.arg = "move"
    /\ mutations = {}
    /\ ~fetching

\* frontend task t is what transformBackendTask makes of backend record b,
\* field by field
IsTransformOf(t, b) ==
    /\ t.id = String(b.id)
    /\ t.backendId = b.id
    /\ t.columnId = b.column_id
    /\ t.order = b.order
    /\ t.title = b.title
    /\ t.status = COLUMN_STATUS_MAP[b.column_id]

\* C21: transformBackendTask maps a backend task b of a mapped column to the
\* task with id String(b.id), backendId b.id, columnId b.column_id, order
\* b.order, title b.title and status COLUMN_STATUS_MAP[b.column_id]; hence
\* right after a refetch every cached task of a mapped column has the status
\* of its column and carries a backendId.
RefetchedTasksAreTransforms ==
    /\ \A b \in Range(server) :
          b.column_id \in DOMAIN COLUMN_STATUS_MAP
             => IsTransformOf(transformBackendTask(b), b)
    /\ lastEvent.op = "fetchTasks" =>
          /\ Len(cache) = Len(server)
          /\ \A i \in 1..Len(cache) :
                ~IsUnmapped(cache[i]) =>
                   /\ IsTransformOf(cache[i], server[i])
                   /\ cache[i].status = COLUMN_STATUS_MAP[cache[i].columnId]
                   /\ cache[i].backendId # NoBackendId

\* a refetch has delivered a task that was created in the in-progress column
RefetchedWitness ==
    /\ lastEvent.op = "fetchTasks"
    /\ \E i \in 1..Len(cache) :
          /\ cache[i].backendId = 3
          /\ cache[i].columnId = 2
          /\ cache[i].status = "in-progress"

\* the mutation the next event belongs to, as it is before that event
Handled(m) == lastEvent'.mid = m.mid

\* C22: within one mutation the steps are ordered.  The snapshot and the
\* optimistic edit come before the remote call is issued; the backend changes
\* only through a call that has been issued; after the call settles exactly
\* one handler runs, the rollback on failure or the invalidation on success,
\* and the mutation is over: its id never gets a handler again.
MutationStepsOrdered ==
    [][/\ \A m \in mutations :
             /\ m.mid <= ops
             /\ m.pc = "onMutate" => m.attempts = 0
             /\ m.pc = "sent" =>
                   /\ m.attempts >= 1
                   /\ m.context.hasPrevious
                   /\ m.context.previousTasks = m.began
       /\ \A m \in mutations :
             (lastEvent'.op = "onMutate" /\ Handled(m)) =>
                /\ m.pc = "onMutate"
                /\ \E n \in mutations' :
                      /\ n.mid = m.mid /\ n.pc = "sent" /\ n.attempts = 1
                      /\ n.context.previousTasks = cache
                      /\ EditPresent(n, cache')
                /\ server' = server
       /\ server' # server =>
             /\ lastEvent'.op = "onSuccess"
             /\ \E m \in mutations : Handled(m) /\ m.pc = "sent"
       /\ lastEvent'.op \in {"onSuccess", "onError"} =>
             \E m \in mutations :
                /\ Handled(m) /\ m.pc = "sent"
                /\ mutations' = mutations \ {m}
                /\ \A n \in mutations' : n.mid # m.mid
                /\ IF lastEvent'.op = "onError"
                   THEN /\ cache' = m.context.previousTasks
                        /\ fetching' = fetching /\ server' = server
                   ELSE /\ fetching' /\ cache' = cache
       /\ \A n \in mutations' :
             \/ \E m \in mutations : m.mid = n.mid
             \/ n.mid = ops' /\ ops' = ops + 1 /\ n.pc = "onMutate"]_vars

\* the call of a move into the in-progress column has succeeded: the
\* invalidation has started the refetch and the cache still holds the
\* optimistic edit
MutationStepsWitness ==
    /\ lastEvent.op = "onSuccess"
    /\ lastEvent.arg = "move"
    /\ mutations = {}
    /\ fetching
    /\ \E t \in Range(cache) : t.columnId = 2 /\ t.status = "todo"
    /\ \E b \in Range(server) : b.id = 1 /\ b.column_id = 2

\* mutate() has been called for m and its snapshot and edit are still to come
EditPending(m) == m.pc = "onMutate"

\* C23 as stated: the snapshot and the optimistic edit are applied in the call
\* of mutate itself, so no state has a started mutation without them.
EditAppliedInMutate ==
    \A m \in mutations : ~EditPending(m) /\ m.context.hasPrevious

\* C23 amended: the snapshot and the optimistic edit run after a suspension
\* point (onMutate awaits cancelQueries) but before any other event: while
\* they are pending for a mutation the cache is the one of its mutate() call,
\* the only step taken is the onMutate of that mutation, and the snapshot it
\* takes is the cache of the mutate() call.
EditFollowsMutateUninterrupted ==
    [][\A m \in mutations :
          EditPending(m) =>
             /\ cache = m.began
             /\ \A n \in mutations : EditPending(n) => n = m
             /\ lastEvent'.op = "onMutate" /\ Handled(m)
             /\ \E n \in mutations' :
                   /\ n.mid = m.mid /\ ~EditPending(n)
                   /\ n.context.hasPrevious
                   /\ n.context.previousTasks = m.began
                   /\ cache' = OptimisticEdit(m, m.began, clock)]_vars

\* the edit of a second mutation has been applied while the first one is in
\* flight: its snapshot holds the first one's edit
EditFollowsMutateWitness ==
    /\ lastEvent.op = "onMutate"
    /\ \E m \in mutations : \E n \in mutations :
          /\ m.mid < n.mid /\ n.mid = lastEvent.mid
          /\ ~EditPending(m) /\ ~EditPending(n)
          /\ n.context.previousTasks # m.context.previousTasks
          /\ n.context.previousTasks = n.began

\* the mutation started by gesture k has just run its handler of settling
Settled(k) ==
    lastEvent.mid = k /\ lastEvent.op \in {"onSuccess", "onError"}

\* the mutation started by gesture k is in flight
InFlight(k) == \E m \in mutations : m.mid = k

\* C24: every mutation that has been issued eventually settles and runs its
\* invalidation or its rollback (no mutation stays in flight for ever), and a
\* mutation in flight ends only by its own handler of settling: no newer
\* mutation, no cancelQueries and no refetch removes it.
MutationsRunToCompletion ==
    /\ \A k \in 1..MaxOps : []<>(~InFlight(k))
    /\ [][\A m \in mutations :
             (\A n \in mutations' : n.mid # m.mid) =>
                /\ m.pc = "sent"
                /\ Handled(m)
                /\ lastEvent'.op \in {"onSuccess", "onError"}
                /\ Settled(m.mid)']_vars

\* the first mutation has settled after a newer mutation was issued, whose
\* onMutate cancelled the queries
MutationsRunWitness ==
    /\ Settled(1)
    /\ \E n \in mutations : n.mid = 2 /\ n.pc = "sent"

\* two tasks of the array are in the same column with the same order
DuplicateOrder(tasks) ==
    \E i \in 1..Len(tasks) : \E j \in 1..Len(tasks) :
       /\ i < j
       /\ tasks[i].columnId = tasks[j].columnId
       /\ tasks[i].order = tasks[j].order

\* move n was called when nothing but the optimistic edit of move m had
\* happened to the cache move m was called on
CalledRightAfter(n, m) ==
    \E now \in 0..MaxClock : n.began = OptimisticEdit(m, m.began, now)

\* the tasks of moves m and n are in the array in one column with one order
MovedPairCollides(m, n, tasks) ==
    /\ m.kind = "move" /\ n.kind = "move" /\ m.taskId # n.taskId
    /\ \E t \in Range(tasks) : \E u \in Range(tasks) :
          /\ t.backendId = m.taskId /\ u.backendId = n.taskId
          /\ t.columnId = u.columnId /\ t.order = u.order
          /\ t.columnId = m.data.column_id /\ t.order = m.data.order
          /\ u.columnId = n.data.column_id /\ u.order = n.data.order

Idle == activeId = NoDrag

\* C26: the drag handler is a two-state machine.  A gesture start on a task
\* takes it from Idle to Dragging with the captured task being the cached
\* task of the dragged id, and every gesture end takes it back to Idle with
\* no captured task: Idle never holds a captured task.
DragIsTwoStateMachine ==
    [][/\ (Idle /\ ~Idle') =>
             /\ lastEvent'.op = "dragStart"
             /\ activeTask' = FindTask(cache, activeId')
             /\ activeTask' # <<>>
       /\ (~Idle /\ Idle') => activeTask' = <<>>
       /\ Idle' => activeTask' = <<>>]_vars

\* the id names no task of the array that has a backendId
Unresolved(tasks, id) ==
    \A t \in Range(tasks) : t.id = id => t.backendId = NoBackendId

\* C27: when at release time the dragged id names no cached task, or a task
\* without backendId, the drop on a column of the board starts no mutation
\* (no remote call), leaves cache and backend unchanged, ends without an
\* error and the handler is Idle again with no captured task.
UnresolvedDropIsNoOp ==
    [][\A over \in Statuses :
          (/\ handleDragEnd(over)
           /\ IsFetchedColumn(over)
           /\ Unresolved(cache, activeId))
          => /\ mutations' = mutations
             /\ cache' = cache
             /\ server' = server
             /\ fetching' = fetching
             /\ lastEvent'.result = "NotSynced"
             /\ Idle' /\ activeTask' = <<>>]_vars

\* the card of an optimistic task was dragged; the create succeeded and the
\* refetch replaced the task before the drop, so the dragged id is gone
UnresolvedDropWitness ==
    /\ lastEvent.op = "dragEnd"
    /\ lastEvent.result = "NotSynced"
    /\ \A t \in Range(cache) : t.id # lastEvent.id
    /\ \E c \in succeeded : c.tempId = lastEvent.id
    /\ Idle

\* C28: from its optimistic edit until it settles, the edit of a mutation
\* stays in the cache: neither the rollback of another mutation nor the
\* refetch that the success of another mutation triggers removes or
\* overwrites the edit of a mutation that is still in flight.
EditKeptWhileInFlight ==
    [][\A n \in mutations :
          (/\ n \in mutations' /\ n.pc = "sent"
           /\ EditPresent(n, cache)
           /\ lastEvent'.op \in {"onError", "fetchTasks"})
          => EditPresent(n, cache')]_vars

\* C29: in every reachable state of the tasks cache the task ids are pairwise
\* distinct, the synthetic ids of optimistic tasks included, also when
\* several creates are in flight at once.
CacheIdsDistinct ==
    \A i \in 1..Len(cache) : \A j \in 1..Len(cache) :
       i # j => cache[i].id # cache[j].id

\* the fields an update may change, and those a move may change
UpdateFields == {"title", "description", "order", "updatedAt"}

MoveFields == {"columnId", "order", "updatedAt"}

\* task u is task t except, at most, for the given fields
SameExcept(t, u, fields) ==
    /\ DOMAIN u = DOMAIN t
    /\ \A f \in DOMAIN t \ fields : u[f] = t[f]

\* the array `after` is the array `before` with only the task of the given
\* backendId changed, and that one only in the given fields
OnlyTargetChanged(before, after, backendId, fields) ==
    /\ Len(after) = Len(before)
    /\ \A i \in 1..Len(before) :
          IF before[i].backendId = backendId
          THEN SameExcept(before[i], after[i], fields)
          ELSE after[i] = before[i]

\* updates that supply one field each: Partial<Task> values of updateTask
PartialUpdates ==
    { [title |-> "Renamed", description |-> Absent, order |-> AbsentNum],
      [title |-> Undefined, description |-> "", order |-> AbsentNum],
      [title |-> Absent, description |-> Undefined, order |-> 5] }

\* the fields of task u that data does not supply are those of task t
UnsuppliedKept(t, u, data) ==
    /\ data.title = Absent => u.title = t.title
    /\ data.description = Absent => u.description = t.description
    /\ data.order = AbsentNum => u.order = t.order

\* the edit of an update with the given request on the array
UpdateKeepsFrame(tasks, taskId, data, now) ==
    LET after == OptimisticUpdate(tasks, taskId, data, now)
    IN /\ OnlyTargetChanged(tasks, after, taskId, UpdateFields)
       /\ \A i \in 1..Len(tasks) : UnsuppliedKept(tasks[i], after[i], data)
       /\ (\A t \in Range(tasks) : t.backendId # taskId) => after = tasks

\* the edit of a move to the given column and order on the array
MoveKeepsFrame(tasks, taskId, targetColumnId, newOrder, now) ==
    LET after == OptimisticMove(tasks, taskId, targetColumnId, newOrder, now)
    IN /\ OnlyTargetChanged(tasks, after, taskId, MoveFields)
       /\ (\A t \in Range(tasks) : t.backendId # taskId) => after = tasks

\* C30: the optimistic edit of an update changes only the task whose
\* backendId is the target id, and of it only the supplied title, description
\* and order and updatedAt; that of a move only columnId, order and
\* updatedAt.  The number of tasks, their positions, every other task and
\* every other field (status, priority, id) stay as they are, and an edit
\* whose target id matches no cached task leaves the array as it is.  Stated
\* for the edit the handler applies and, on the same array, for the updates
\* of one field and for a target id (the next id the backend issues) that
\* no cached task has.
EditsChangeOnlyTarget ==
    [][\A m \in mutations :
          (/\ m.pc = "onMutate" /\ m.kind \in {"update", "move"}
           /\ lastEvent'.op = "onMutate" /\ Handled(m))
          => /\ m.kind = "update" =>
                   /\ OnlyTargetChanged(cache, cache', m.taskId, UpdateFields)
                   /\ \A i \in 1..Len(cache) :
                         UnsuppliedKept(cache[i], cache'[i], m.data)
             /\ m.kind = "move" =>
                   OnlyTargetChanged(cache, cache', m.taskId, MoveFields)
             /\ \A updates \in PartialUpdates :
                   UpdateKeepsFrame(cache, m.taskId,
                      transformToUpdateRequest(updates), clock)
             /\ \A updates \in Updates :
                   UpdateKeepsFrame(cache, nextId,
                      transformToUpdateRequest(updates), clock)
             /\ MoveKeepsFrame(cache, nextId, m.data.column_id, 0, clock)]_vars

\* the optimistic edit of a move of task 1 into the in-progress column has
\* been applied next to a task the move is not about
EditsChangeOnlyTargetWitness ==
    /\ JustMoved
    /\ Len(cache) >= 2
    /\ \E t \in Range(cache) :
          /\ t.backendId = 1 /\ t.columnId = 2 /\ t.status = "todo"
          /\ t.updatedAt = clock /\ clock > 0
    /\ \E t \in Range(cache) : t.backendId # 1
    /\ \E id \in 1..nextId : \A t \in Range(cache) : t.backendId # id

====
